---- MODULE Spec2Model ----
(***************************************************************************)
(* Model of popscle_dsc_pileup_merge_splitted.py: the driver main() and    *)
(* the four merge procedures it calls, over a file system that holds the   *)
(* partial (per run) pileup files under the input prefix and the four      *)
(* full files under the output prefix.                                     *)
(*                                                                         *)
(* A partial file is a record [st, rows]: st = "absent" (no such file),    *)
(* "bad" (pl.read_csv raises on it) or "ok" (rows is what it holds).       *)
(* Header lines of the CEL/PLP/VAR tables are not modelled; rows are the   *)
(* data rows.                                                              *)
(***************************************************************************)
EXTENDS Integers, Sequences, FiniteSets, TLC

VARIABLES
    cel_parts,      \* run -> partial CEL file  <prefix>.<run>.pileup.cel.gz
    plp_parts,      \* run -> partial PLP file  <prefix>.<run>.pileup.plp.gz
    umi_parts,      \* run -> partial UMI file  <prefix>.<run>.pileup.umi.gz
    var_parts,      \* run -> partial VAR file  <prefix>.<run>.pileup.var.gz
    exists,         \* kinds whose full (destination) file exists
    opened,         \* kinds whose full file this process created
    full,           \* kind -> rows this process wrote to the full file
    pc,             \* position of the process
    popscle_pileup_cel_df,  \* main's variable: the table the CEL merge returned
    plp_arg,        \* the popscle_pileup_cel_df argument of the PLP merge
    i,              \* enumerate() index / number of partial files consumed
    line_count,     \* the UMI merge's running counter
    popscle_pileup_var_most_complete_df,        \* the VAR merge's candidate
    popscle_pileup_var_most_complete_filename,  \* and the run whose file it is
    last_check,     \* outcome of the VAR merge's last loop iteration
    started,        \* procedures started so far, in order
    returned,       \* kind -> what its procedure returned ("-" : nothing yet)
    partition_of,   \* kind -> {<<run, PARTITION value given to its file>>}
    env_left        \* how many more files other processes may create

vars == <<cel_parts, plp_parts, umi_parts, var_parts, exists, opened, full, pc,
          popscle_pileup_cel_df, plp_arg, i, line_count,
          popscle_pileup_var_most_complete_df,
          popscle_pileup_var_most_complete_filename, last_check, started, returned, partition_of, env_left>>

inputs == <<cel_parts, plp_parts, umi_parts, var_parts>>

----------------------------------------------------------------------------
\* Bounds of the model.

\* Number of upstream runs (partition segments) that may have partial files.
MaxRuns == 2
\* Largest number of data rows of a partial file.
MaxRows == 2
\* Number of full files other processes may create while this one runs.
MaxEnv == 1

Kinds == {"cel", "plp", "umi", "var"}

\* The runs are numbered 9, 10, ...: their partition segments "9", "10", ...
\* sort as strings, not as numbers.
RunNumbers == 9 .. (8 + MaxRuns)

Absent == [st |-> "absent", rows |-> <<>>]
Bad == [st |-> "bad", rows |-> <<>>]
Ok(rows) == [st |-> "ok", rows |-> rows]

None == [is_none |-> TRUE, rows |-> <<>>]
DataFrame(rows) == [is_none |-> FALSE, rows |-> rows]

Terminal == {"done", "exit1", "crash"}

----------------------------------------------------------------------------
\* glob.glob() and sorted() over the partial files of one kind.

RECURSIVE Digits(_)
\* The partition segment of a run's filenames: str(n) as a digit sequence.
Digits(n) == IF n < 10 THEN <<n>> ELSE Digits(n \div 10) \o <<n % 10>>

\* String order on partition segments.  The filenames of one kind differ in
\* the segment only and the character after it is ".", which sorts before
\* every digit: a proper prefix comes first.
LexLess(a, b) ==
    \E k \in 1 .. (Len(a) + 1) :
        /\ \A j \in 1 .. (k - 1) : j <= Len(b) /\ a[j] = b[j]
        /\ k <= Len(b)
        /\ (k <= Len(a) => a[k] < b[k])

\* glob.glob(f"{prefix}.*.pileup.<kind>.gz"): the runs that have a file.
Glob(parts) == {r \in RunNumbers : parts[r].st # "absent"}

RECURSIVE SortedNumeric(_)
\* A sort of the partition segments as numbers (not what sorted() does).
SortedNumeric(S) ==
    IF S = {} THEN <<>>
    ELSE LET m == CHOOSE x \in S : \A y \in S : x <= y
         IN  <<m>> \o SortedNumeric(S \ {m})

RECURSIVE Sorted(_)
\* sorted(...) of the filenames of the runs in S.
Sorted(S) ==
    IF S = {} THEN <<>>
    ELSE LET m == CHOOSE x \in S :
                      \A y \in S \ {x} : LexLess(Digits(x), Digits(y))
         IN  <<m>> \o Sorted(S \ {m})

----------------------------------------------------------------------------
\* Contents of the partial files.

\* pl.read_csv of run r's partial CEL file: the file's #DROPLET_ID values are
\* parts[r].rows; the remaining columns are carried as BARCODE, which names
\* the row by run and line.
ReadCel(parts, r) ==
    [p \in 1 .. Len(parts[r].rows) |->
        [DROPLET_ID_PARTITIONED |-> parts[r].rows[p], BARCODE |-> <<r, p>>]]

\* pl.read_csv of run r's partial PLP file: #DROPLET_ID values are
\* parts[r].rows; SNP_ID names the row by run and line.
ReadPlp(parts, r) ==
    [p \in 1 .. Len(parts[r].rows) |->
        [DROPLET_ID_PARTITIONED |-> parts[r].rows[p], SNP_ID |-> <<r, p>>,
         ALLELES |-> "A", BASEQS |-> "F"]]

\* pl.read_csv of run r's partial VAR file.  parts[r].rows gives each row's
\* ALT value; rows of two files at one position differ in that field or in
\* none.
ReadVar(parts, r) ==
    [p \in 1 .. Len(parts[r].rows) |->
        [SNP_ID |-> p - 1, CHROM |-> "1", ALT |-> parts[r].rows[p]]]

\* The lines of run r's partial UMI file, each as its tab-separated fields.
\* parts[r].rows gives each line's shape: "tab" is a line of three fields,
\* "notab" a line without any tab.
ReadUmi(parts, r) ==
    [p \in 1 .. Len(parts[r].rows) |->
        IF parts[r].rows[p] = "tab"
        THEN <<"7", ToString(<<r, p>>), "y">>
        ELSE <<ToString(<<r, p>>)>>]

----------------------------------------------------------------------------
\* write_popscle_pileup_cel_full_filename

\* .with_columns(pl.lit(i).alias("PARTITION")), i the enumerate() index.
WithPartition(rows, idx) ==
    [p \in 1 .. Len(rows) |->
        [DROPLET_ID_PARTITIONED |-> rows[p].DROPLET_ID_PARTITIONED,
         BARCODE |-> rows[p].BARCODE,
         PARTITION |-> idx]]

\* popscle_pileup_cel_dfs after the loop over enumerate(sorted(glob(...))).
CelFrames(parts) ==
    LET files == Sorted(Glob(parts))
    IN  [n \in 1 .. Len(files) |-> WithPartition(ReadCel(parts, files[n]), n - 1)]

RECURSIVE Concat(_)
\* pl.concat of a non-empty list of frames.
Concat(dfs) == IF dfs = <<>> THEN <<>> ELSE Head(dfs) \o Concat(Tail(dfs))

WithRowCountFromOne(rows, offset) ==
    [k \in 1 .. Len(rows) |->
        [DROPLET_ID |-> offset + k,
         DROPLET_ID_PARTITIONED |-> rows[k].DROPLET_ID_PARTITIONED,
         BARCODE |-> rows[k].BARCODE,
         PARTITION |-> rows[k].PARTITION]]

\* .with_row_count(name="DROPLET_ID", offset=offset)
WithRowCount(rows, offset) ==
    [k \in 1 .. Len(rows) |->
        [DROPLET_ID |-> offset + k - 1,
         DROPLET_ID_PARTITIONED |-> rows[k].DROPLET_ID_PARTITIONED,
         BARCODE |-> rows[k].BARCODE,
         PARTITION |-> rows[k].PARTITION]]

\* The .select(...) written to the full CEL file.
CelSelect(df) ==
    [k \in 1 .. Len(df) |->
        [DROPLET_ID |-> df[k].DROPLET_ID, BARCODE |-> df[k].BARCODE]]

\* What the procedure does when its destination does not exist:
\* "crash" (an exception leaves it) or "ok" with the table df.
CelOutcome(parts) ==
    LET files == Sorted(Glob(parts))
    IN  IF \E n \in 1 .. Len(files) : parts[files[n]].st = "bad"
        THEN [end |-> "crash", df |-> <<>>]     \* pl.read_csv raises
        ELSE IF CelFrames(parts) = <<>>
        THEN [end |-> "crash", df |-> <<>>]     \* pl.concat([]) raises
        ELSE [end |-> "ok", df |-> WithRowCount(Concat(CelFrames(parts)), 0)]

AfterCelIgnoringNone(df) == "plp"

\* main, after the CEL merge returned df.
AfterCel(df) == IF df.is_none THEN "exit1" ELSE "plp"

Tags(parts) ==
    LET files == Sorted(Glob(parts))
    IN  {<<files[n], n - 1>> : n \in 1 .. Len(files)}

\* main, lines 378-384: the call of the procedure and the test of its result.
write_popscle_pileup_cel_full_filename ==
    /\ pc = "cel"
    /\ started' = Append(started, "cel")
    /\ IF "cel" \in exists
       THEN /\ popscle_pileup_cel_df' = None
            /\ returned' = [returned EXCEPT !["cel"] = "None"]
            /\ pc' = AfterCel(None)
            /\ UNCHANGED <<exists, opened, full, partition_of>>
       ELSE LET res == CelOutcome(cel_parts)
            IN  IF res.end = "crash"
                THEN /\ pc' = "crash"
                     /\ UNCHANGED <<exists, opened, full, partition_of,
                                    popscle_pileup_cel_df, returned>>
                ELSE /\ exists' = exists \cup {"cel"}
                     /\ opened' = opened \cup {"cel"}
                     /\ full' = [full EXCEPT !["cel"] = CelSelect(res.df)]
                     /\ partition_of' =
                            [partition_of EXCEPT !["cel"] = Tags(cel_parts)]
                     /\ popscle_pileup_cel_df' = DataFrame(res.df)
                     /\ returned' = [returned EXCEPT !["cel"] = "df"]
                     /\ pc' = AfterCel(DataFrame(res.df))
    /\ UNCHANGED <<inputs, plp_arg, i, line_count,
                   popscle_pileup_var_most_complete_df,
                   popscle_pileup_var_most_complete_filename, last_check,
                   env_left>>

----------------------------------------------------------------------------
\* write_popscle_pileup_plp_full_filename

MatchesOnDropletIdOnly(l, df) ==
    SelectSeq(df, LAMBDA d :
                      d.DROPLET_ID_PARTITIONED = l.DROPLET_ID_PARTITIONED)

\* The rows of df that an inner join on ["PARTITION",
\* "DROPLET_ID_PARTITIONED"] pairs with the row l.
Matches(l, df) ==
    SelectSeq(df, LAMBDA d : /\ d.PARTITION = l.PARTITION
                             /\ d.DROPLET_ID_PARTITIONED = l.DROPLET_ID_PARTITIONED)

\* The .select(...) of the joined rows of l.
PlpSelect(l, ms) ==
    [k \in 1 .. Len(ms) |->
        [DROPLET_ID |-> ms[k].DROPLET_ID, SNP_ID |-> l.SNP_ID,
         ALLELES |-> l.ALLELES, BASEQS |-> l.BASEQS]]

RECURSIVE JoinSelect(_, _)
\* .join(popscle_pileup_cel_df, on=[...], how="inner").select(...) of the
\* tagged rows left.
JoinSelect(left, df) ==
    IF left = <<>> THEN <<>>
    ELSE PlpSelect(Head(left), Matches(Head(left), df))
             \o JoinSelect(Tail(left), df)

PlpTagFromOne(idx, r) == idx + 1

\* The PARTITION value of the idx-th (0-based) partial PLP file, of run r.
PlpTag(idx, r) == idx

\* The rows appended to the full PLP file for the idx-th partial file.
PlpPart(parts, df, idx, r) ==
    JoinSelect([p \in 1 .. Len(ReadPlp(parts, r)) |->
                   [DROPLET_ID_PARTITIONED |->
                        ReadPlp(parts, r)[p].DROPLET_ID_PARTITIONED,
                    SNP_ID |-> ReadPlp(parts, r)[p].SNP_ID,
                    ALLELES |-> ReadPlp(parts, r)[p].ALLELES,
                    BASEQS |-> ReadPlp(parts, r)[p].BASEQS,
                    PARTITION |-> PlpTag(idx, r)]],
               df)

\* Lines 113-126: the test of the destination and gzip_mod.open(..., "w").
plp_open ==
    /\ pc = "plp"
    /\ started' = Append(started, "plp")
    /\ plp_arg' = popscle_pileup_cel_df
    /\ IF "plp" \in exists
       THEN /\ returned' = [returned EXCEPT !["plp"] = "False"]
            /\ pc' = "umi"
            /\ UNCHANGED <<exists, opened, full, i>>
       ELSE /\ exists' = exists \cup {"plp"}
            /\ opened' = opened \cup {"plp"}
            /\ full' = [full EXCEPT !["plp"] = <<>>]
            /\ i' = 0
            /\ pc' = "plp_loop"
            /\ UNCHANGED returned
    /\ UNCHANGED <<inputs, popscle_pileup_cel_df, line_count,
                   popscle_pileup_var_most_complete_df,
                   popscle_pileup_var_most_complete_filename, last_check,
                   partition_of, env_left>>

\* Lines 128-183: one iteration of the loop over the partial PLP files.
plp_part ==
    /\ pc = "plp_loop"
    /\ i < Len(Sorted(Glob(plp_parts)))
    /\ LET r == Sorted(Glob(plp_parts))[i + 1]
       IN  IF plp_parts[r].st = "bad"
           THEN /\ pc' = "crash"
                /\ UNCHANGED <<full, i, partition_of>>
           ELSE /\ full' = [full EXCEPT !["plp"] =
                               @ \o PlpPart(plp_parts, plp_arg.rows, i, r)]
                /\ partition_of' = [partition_of EXCEPT !["plp"] =
                                       @ \cup {<<r, PlpTag(i, r)>>}]
                /\ i' = i + 1
                /\ pc' = "plp_loop"
    /\ UNCHANGED <<inputs, exists, opened, popscle_pileup_cel_df, plp_arg,
                   line_count, popscle_pileup_var_most_complete_df,
                   popscle_pileup_var_most_complete_filename, last_check,
                   started, returned, env_left>>

\* Line 185: the loop is over, the file is closed, return True.
plp_return ==
    /\ pc = "plp_loop"
    /\ i = Len(Sorted(Glob(plp_parts)))
    /\ returned' = [returned EXCEPT !["plp"] = "True"]
    /\ pc' = "umi"
    /\ UNCHANGED <<inputs, exists, opened, full, popscle_pileup_cel_df,
                   plp_arg, i, line_count,
                   popscle_pileup_var_most_complete_df,
                   popscle_pileup_var_most_complete_filename, last_check,
                   started, partition_of, env_left>>

----------------------------------------------------------------------------
\* write_popscle_pileup_umi_full_filename

\* line.split("\t", 1): the first field and, when the line has a tab, the
\* rest of the line (its remaining fields, tabs kept).
Split1(line) ==
    IF Len(line) = 1 THEN <<<<line[1]>>>> ELSE <<<<line[1]>>, Tail(line)>>

UmiLineKeepingFirst(count, line) == <<ToString(count)>> \o line

\* print(str(line_count), line.split("\t", 1)[1], sep="\t", end=""): the
\* fields of the emitted line.  Only used on a line that has a tab.
UmiLine(count, line) == <<ToString(count)>> \o Split1(line)[2]

RECURSIVE UmiCopy(_, _, _)
\* The loop "for line in fh" from the state [out, count]: it ends at the end
\* of the file or with the IndexError of [1] on a line without a tab.
UmiCopy(lines, out, count) ==
    IF lines = <<>> THEN [end |-> "ok", out |-> out, count |-> count]
    ELSE IF Len(Split1(Head(lines))) < 2
    THEN [end |-> "crash", out |-> out, count |-> count]
    ELSE UmiCopy(Tail(lines), Append(out, UmiLine(count, Head(lines))),
                 count + 1)

\* Lines 192-206: the test of the destination and gzip_mod.open(..., "wt").
umi_open ==
    /\ pc = "umi"
    /\ started' = Append(started, "umi")
    /\ line_count' = 0
    /\ IF "umi" \in exists
       THEN /\ returned' = [returned EXCEPT !["umi"] = "False"]
            /\ pc' = "var"
            /\ UNCHANGED <<exists, opened, full, i>>
       ELSE /\ exists' = exists \cup {"umi"}
            /\ opened' = opened \cup {"umi"}
            /\ full' = [full EXCEPT !["umi"] = <<>>]
            /\ i' = 0
            /\ pc' = "umi_loop"
            /\ UNCHANGED returned
    /\ UNCHANGED <<inputs, popscle_pileup_cel_df, plp_arg,
                   popscle_pileup_var_most_complete_df,
                   popscle_pileup_var_most_complete_filename, last_check,
                   partition_of, env_left>>

\* Lines 208-224: one partial UMI file, all its lines.
umi_part ==
    /\ pc = "umi_loop"
    /\ i < Len(Sorted(Glob(umi_parts)))
    /\ LET r == Sorted(Glob(umi_parts))[i + 1]
           res == UmiCopy(ReadUmi(umi_parts, r), full["umi"], line_count)
       IN  /\ full' = [full EXCEPT !["umi"] = res.out]
           /\ line_count' = res.count
           /\ IF res.end = "crash"
              THEN pc' = "crash" /\ i' = i
              ELSE pc' = "umi_loop" /\ i' = i + 1
    /\ UNCHANGED <<inputs, exists, opened, popscle_pileup_cel_df, plp_arg,
                   popscle_pileup_var_most_complete_df,
                   popscle_pileup_var_most_complete_filename, last_check,
                   started, returned, partition_of, env_left>>

\* Line 226: return True.
umi_return ==
    /\ pc = "umi_loop"
    /\ i = Len(Sorted(Glob(umi_parts)))
    /\ returned' = [returned EXCEPT !["umi"] = "True"]
    /\ pc' = "var"
    /\ UNCHANGED <<inputs, exists, opened, full, popscle_pileup_cel_df,
                   plp_arg, i, line_count,
                   popscle_pileup_var_most_complete_df,
                   popscle_pileup_var_most_complete_filename, last_check,
                   started, partition_of, env_left>>

----------------------------------------------------------------------------
\* write_popscle_pileup_var_full_filename

NoFilename == [is_none |-> TRUE, run |-> 0]
Filename(r) == [is_none |-> FALSE, run |-> r]

\* df[idx] for an integer idx: the frame df.slice(idx, 1); a negative idx
\* counts from the end, and a position outside the frame gives no row.
GetItem(df, idx) ==
    LET pos == IF idx < 0 THEN Len(df) + idx ELSE idx
    IN  IF pos >= 0 /\ pos < Len(df) THEN <<df[pos + 1]>> ELSE <<>>

\* a == b on two struct series: element by element, a series of length 1
\* being broadcast; the result has no element when either has none.
SeriesEq(a, b) ==
    IF Len(a) = Len(b) THEN [k \in 1 .. Len(a) |-> a[k] = b[k]]
    ELSE IF Len(b) = 1 THEN [k \in 1 .. Len(a) |-> a[k] = b[1]]
    ELSE IF Len(a) = 1 THEN [k \in 1 .. Len(b) |-> a[1] = b[k]]
    ELSE <<>>

LastRowCheckAlwaysPasses(most, df) == "pass"

\* The assert of lines 275-284: "pass", "fail" (AssertionError) or "error"
\* (.item() raises on a series that has not exactly one element).
LastRowCheck(most, df) ==
    LET eq == SeriesEq(GetItem(most, Len(most) - 1), GetItem(df, Len(most) - 1))
    IN  IF Len(eq) # 1 THEN "error"
        ELSE IF eq[1] THEN "pass" ELSE "fail"

ReplacesWhenNotSmaller(height, most_height) == height >= most_height

\* Line 272: the elif condition.
Replaces(height, most_height) == height > most_height

\* Lines 233-242: the test of the destination.
var_begin ==
    /\ pc = "var"
    /\ started' = Append(started, "var")
    /\ popscle_pileup_var_most_complete_df' = None
    /\ popscle_pileup_var_most_complete_filename' = NoFilename
    /\ last_check' = "none"
    /\ i' = 0
    /\ IF "var" \in exists
       THEN /\ returned' = [returned EXCEPT !["var"] = "False"]
            /\ pc' = "done"
       ELSE /\ pc' = "var_loop"
            /\ UNCHANGED returned
    /\ UNCHANGED <<inputs, exists, opened, full, popscle_pileup_cel_df,
                   plp_arg, line_count, partition_of, env_left>>

\* Lines 247-287: one iteration of the loop over the partial VAR files.
var_part ==
    /\ pc = "var_loop"
    /\ i < Len(Sorted(Glob(var_parts)))
    /\ LET r == Sorted(Glob(var_parts))[i + 1]
           popscle_pileup_var_df == ReadVar(var_parts, r)
           most == popscle_pileup_var_most_complete_df
           check == IF var_parts[r].st = "bad" THEN "read_error"
                    ELSE IF most.is_none THEN "first"
                    ELSE IF Replaces(Len(popscle_pileup_var_df), Len(most.rows))
                    THEN LastRowCheck(most.rows, popscle_pileup_var_df)
                    ELSE "skip"
       IN  /\ last_check' = check
           /\ IF check \in {"first", "pass"}
              THEN /\ popscle_pileup_var_most_complete_df' =
                          DataFrame(popscle_pileup_var_df)
                   /\ popscle_pileup_var_most_complete_filename' = Filename(r)
              ELSE UNCHANGED <<popscle_pileup_var_most_complete_df,
                               popscle_pileup_var_most_complete_filename>>
           /\ IF check \in {"read_error", "fail", "error"}
              THEN pc' = "crash" /\ i' = i
              ELSE pc' = "var_loop" /\ i' = i + 1
    /\ UNCHANGED <<inputs, exists, opened, full, popscle_pileup_cel_df,
                   plp_arg, line_count, started, returned, partition_of,
                   env_left>>

\* Lines 289-300: shutil.copy2 of the candidate's file, or return False.
var_finish ==
    /\ pc = "var_loop"
    /\ i = Len(Sorted(Glob(var_parts)))
    /\ IF ~popscle_pileup_var_most_complete_filename.is_none
       THEN /\ exists' = exists \cup {"var"}
            /\ opened' = opened \cup {"var"}
            /\ full' = [full EXCEPT !["var"] =
                   ReadVar(var_parts,
                           popscle_pileup_var_most_complete_filename.run)]
            /\ returned' = [returned EXCEPT !["var"] = "True"]
       ELSE /\ returned' = [returned EXCEPT !["var"] = "False"]
            /\ UNCHANGED <<exists, opened, full>>
    /\ pc' = "done"
    /\ UNCHANGED <<inputs, popscle_pileup_cel_df, plp_arg, i, line_count,
                   popscle_pileup_var_most_complete_df,
                   popscle_pileup_var_most_complete_filename, last_check,
                   started, partition_of, env_left>>

----------------------------------------------------------------------------
\* main and the other processes

OutputExistsCelOnly(ex) == "cel" \in ex

\* output_exists after the four os.path.exists tests, ex the full files
\* that exist.
OutputExists(ex) == \E k \in Kinds : k \in ex

\* Lines 345-376: the four os.path.exists tests and sys.exit(1).
main_check ==
    /\ pc = "main"
    /\ pc' = IF OutputExists(exists) THEN "exit1" ELSE "cel"
    /\ UNCHANGED <<inputs, exists, opened, full, popscle_pileup_cel_df,
                   plp_arg, i, line_count,
                   popscle_pileup_var_most_complete_df,
                   popscle_pileup_var_most_complete_filename, last_check,
                   started, returned, partition_of, env_left>>

\* Another process creates a full file while this one runs: what
\* os.path.exists answers can change between two tests.
other_process_creates ==
    /\ pc \notin Terminal
    /\ env_left > 0
    /\ \E k \in Kinds \ exists : exists' = exists \cup {k}
    /\ env_left' = env_left - 1
    /\ UNCHANGED <<inputs, opened, full, pc, popscle_pileup_cel_df, plp_arg,
                   i, line_count, popscle_pileup_var_most_complete_df,
                   popscle_pileup_var_most_complete_filename, last_check,
                   started, returned, partition_of>>

----------------------------------------------------------------------------
\* The file systems a run starts from.

SeqsUpTo(S, n) == UNION {[1 .. k -> S] : k \in 0 .. n}

Ascending(n) == [p \in 1 .. n |-> p - 1]

\* Partial CEL files: the droplet ids 0..n-1 of a run in order (what the
\* pileup writes), or one droplet whose id, MaxRows, is not its line number.
CelFiles ==
    {Absent} \cup {Ok(Ascending(n)) : n \in 0 .. MaxRows} \cup {Ok(<<MaxRows>>)}

\* Partial PLP files: no observation, or one observation for each of the
\* droplet ids 0..MaxRows, or a file that does not parse.
PlpFiles == {Absent, Bad, Ok(<<>>), Ok(Ascending(MaxRows + 1))}

\* Partial UMI files: up to MaxRows lines, each with or without a tab.
UmiFiles == {Absent} \cup {Ok(l) : l \in SeqsUpTo({"tab", "notab"}, MaxRows)}

\* Partial VAR files: up to MaxRows rows, or a file that does not parse.
VarFiles == {Absent, Bad} \cup {Ok(l) : l \in SeqsUpTo({"A", "C"}, MaxRows)}

\* One well-formed partial file per run.
Plain ==
    [cel |-> [r \in RunNumbers |-> Ok(<<0>>)],
     plp |-> [r \in RunNumbers |-> Ok(Ascending(MaxRows + 1))],
     umi |-> [r \in RunNumbers |-> Ok(<<"tab">>)],
     var |-> [r \in RunNumbers |-> Ok(<<"A">>)]]

\* No partial file of the kind at all.
Nothing == [r \in RunNumbers |-> Absent]

LastRun == Sorted(RunNumbers)[Len(Sorted(RunNumbers))]

\* As Plain, but the file read last makes the procedure raise.
Broken ==
    [cel |-> [Plain.cel EXCEPT ![LastRun] = Bad],
     plp |-> [Plain.plp EXCEPT ![LastRun] = Bad],
     umi |-> [Plain.umi EXCEPT ![LastRun] = Ok(<<"tab", "notab">>)],
     var |-> [Plain.var EXCEPT ![LastRun] = Ok(<<"C", "A">>)]]

Start ==
    /\ opened = {}
    /\ full = [k \in Kinds |-> <<>>]
    /\ pc = "main"
    /\ popscle_pileup_cel_df = None
    /\ plp_arg = None
    /\ i = 0
    /\ line_count = 0
    /\ popscle_pileup_var_most_complete_df = None
    /\ popscle_pileup_var_most_complete_filename = NoFilename
    /\ last_check = "none"
    /\ started = <<>>
    /\ returned = [k \in Kinds |-> "-"]
    /\ partition_of = [k \in {"cel", "plp"} |-> {}]

\* Any CEL and PLP files, nothing under the output prefix.
InitJoin ==
    /\ cel_parts \in [RunNumbers -> CelFiles]
    /\ plp_parts \in [RunNumbers -> PlpFiles]
    /\ umi_parts = Plain.umi
    /\ var_parts = Plain.var
    /\ exists = {}
    /\ env_left = 0

\* Any UMI files.
InitUmi ==
    /\ cel_parts = Plain.cel
    /\ plp_parts = Plain.plp
    /\ umi_parts \in [RunNumbers -> UmiFiles]
    /\ var_parts = Plain.var
    /\ exists = {}
    /\ env_left = 0

\* Any VAR files.
InitVar ==
    /\ cel_parts = Plain.cel
    /\ plp_parts = Plain.plp
    /\ umi_parts = Plain.umi
    /\ var_parts \in [RunNumbers -> VarFiles]
    /\ exists = {}
    /\ env_left = 0

\* Any set of full files already there, other processes creating more, and
\* for each kind no partial file, well-formed ones, or a failing one.
InitDriver ==
    /\ cel_parts \in {Nothing, Plain.cel, Broken.cel}
    /\ plp_parts \in {Nothing, Plain.plp, Broken.plp}
    /\ umi_parts \in {Nothing, Plain.umi, Broken.umi}
    /\ var_parts \in {Nothing, Plain.var, Broken.var}
    /\ exists \in SUBSET Kinds
    /\ env_left = MaxEnv

Init == Start /\ (InitJoin \/ InitUmi \/ InitVar \/ InitDriver)

Next ==
    \/ main_check
    \/ write_popscle_pileup_cel_full_filename
    \/ plp_open
    \/ plp_part
    \/ plp_return
    \/ umi_open
    \/ umi_part
    \/ umi_return
    \/ var_begin
    \/ var_part
    \/ var_finish
    \/ other_process_creates

Spec == Init /\ [][Next]_vars

----------------------------------------------------------------------------
\* Properties

\* The filename of run r sorts before that of run s.
Before(r, s) == LexLess(Digits(r), Digits(s))

\* The rows <<run, line>> of the partial files that sort before run r's.
RowsBefore(parts, r) ==
    UNION {{<<s, p>> : p \in 1 .. Len(parts[s].rows)} :
               s \in {t \in Glob(parts) : Before(t, r)}}

AllRows(parts) ==
    UNION {{<<s, p>> : p \in 1 .. Len(parts[s].rows)} : s \in Glob(parts)}

\* The 0-based rank of run r's file among the sorted files of its kind.
Rank(parts, r) == Cardinality({t \in Glob(parts) : Before(t, r)})

\* C1: when the CEL merge returns a table, the full CEL file and the table
\* have one row per row of the partial files; the row at 0-based position k
\* has DROPLET_ID k, and the rows of a partial file follow, in the file's
\* order, the rows of all partial files that sort before it.
C1_DropletIdsDense ==
    returned["cel"] = "df" =>
        LET df == popscle_pileup_cel_df.rows
            out == full["cel"]
        IN  /\ Len(out) = Cardinality(AllRows(cel_parts))
            /\ Len(df) = Len(out)
            /\ \A r \in Glob(cel_parts) :
                 \A p \in 1 .. Len(cel_parts[r].rows) :
                    LET k == Cardinality(RowsBefore(cel_parts, r)) + p
                    IN  /\ out[k] = [DROPLET_ID |-> k - 1, BARCODE |-> <<r, p>>]
                        /\ df[k].DROPLET_ID = k - 1
                        /\ df[k].BARCODE = <<r, p>>
                        /\ df[k].DROPLET_ID_PARTITIONED = cel_parts[r].rows[p]

\* Two partial CEL files with rows were merged: the second file's rows
\* follow the first's.
C1_Witness ==
    /\ returned["cel"] = "df"
    /\ Len(full["cel"]) = 2 * MaxRows
    /\ \A r \in RunNumbers : Len(cel_parts[r].rows) = MaxRows

\* The droplet rows that carry the pair (partition, partitioned id).
Entries(df, idx, d) ==
    {k \in 1 .. Len(df) :
        df[k].PARTITION = idx /\ df[k].DROPLET_ID_PARTITIONED = d}

\* The rows of the full PLP file that come from line p of run r's file.
Emitted(out, r, p) == {k \in 1 .. Len(out) : out[k].SNP_ID = <<r, p>>}

\* C2: when the PLP merge returns True, a row of the i-th partial PLP file
\* whose (i, partitioned id) pair is in the table of the CEL merge is in the
\* full PLP file once, with that entry's DROPLET_ID and its other columns
\* unchanged; a row whose pair is not in the table is not in the file; and
\* the file holds nothing else.
C2_JoinRewritesIds ==
    returned["plp"] = "True" =>
        LET df == popscle_pileup_cel_df.rows
            out == full["plp"]
        IN  /\ \A r \in Glob(plp_parts) :
                 \A p \in 1 .. Len(plp_parts[r].rows) :
                    LET es == Entries(df, Rank(plp_parts, r), plp_parts[r].rows[p])
                        ks == Emitted(out, r, p)
                    IN  /\ Cardinality(ks) = Cardinality(es)
                        /\ \A k \in ks :
                             /\ \E e \in es : out[k].DROPLET_ID = df[e].DROPLET_ID
                             /\ out[k].ALLELES = "A"
                             /\ out[k].BASEQS = "F"
            /\ \A k \in 1 .. Len(out) : out[k].SNP_ID \in AllRows(plp_parts)

\* An observation of the second partial file was given a global id past the
\* first file's droplets, and another observation was dropped.
C2_Witness ==
    /\ returned["plp"] = "True"
    /\ \E k \in 1 .. Len(full["plp"]) :
          /\ full["plp"][k].SNP_ID[1] = LastRun
          /\ full["plp"][k].DROPLET_ID >= MaxRows
          /\ full["plp"][k].DROPLET_ID # plp_parts[LastRun].rows[full["plp"][k].SNP_ID[2]]
    /\ Len(full["plp"]) < Cardinality(AllRows(plp_parts))

\* What a procedure returns when it refuses to run.
Refusal(k) == IF k = "cel" THEN "None" ELSE "False"

C3_Step ==
    /\ (pc = "main" /\ pc' # "main" /\ exists # {})
          => /\ pc' = "exit1"
             /\ started' = <<>>
             /\ opened' = {}
             /\ full' = full
             /\ exists' = exists
    /\ pc = "exit1" => /\ pc' = "exit1"
                       /\ started' = started
                       /\ opened' = opened
                       /\ full' = full
    /\ \A k \in Kinds :
          (pc = k /\ pc' # k /\ k \in exists)
              => /\ returned'[k] = Refusal(k)
                 /\ opened' = opened
                 /\ full' = full
                 /\ exists' = exists

\* C3: when main's tests find a full file, the process goes to sys.exit(1)
\* with no procedure started and no full file created or changed, and stays
\* there; and a procedure called while its full file exists returns None
\* (CEL) or False without creating or changing any full file.
C3_NoOverwrite == [][C3_Step]_vars

\* main has exited with status 1 because a full file was there.
C3_Witness == pc = "exit1" /\ started = <<>> /\ exists # {} /\ opened = {}

\* A procedure other than main's first call met its full file.
C3_WitnessProcedure == returned["umi"] = "False" /\ "umi" \notin opened

\* The number of rows of run r's partial VAR file.
Height(r) == Len(var_parts[r].rows)

C4_Selected ==
    returned["var"] = "True" =>
        LET w == popscle_pileup_var_most_complete_filename.run
        IN  /\ ~popscle_pileup_var_most_complete_filename.is_none
            /\ w \in Glob(var_parts)
            /\ \A s \in Glob(var_parts) :
                  /\ Height(s) <= Height(w)
                  /\ Before(s, w) => Height(s) < Height(w)
            /\ full["var"] = ReadVar(var_parts, w)

C4_Step ==
    (pc = "var_loop" /\ ~popscle_pileup_var_most_complete_df.is_none)
        => /\ ~popscle_pileup_var_most_complete_df'.is_none
           /\ Len(popscle_pileup_var_most_complete_df'.rows)
                  >= Len(popscle_pileup_var_most_complete_df.rows)

\* C4: when the VAR merge returns True, the file it copied is a partial VAR
\* file with the largest number of rows, and every partial file that sorts
\* before it has fewer rows; and during the scan the candidate's number of
\* rows never decreases.
C4_MostCompleteFirstOfTies == []C4_Selected /\ [][C4_Step]_vars

\* The file read last replaced a smaller candidate and was copied.
C4_Witness ==
    /\ returned["var"] = "True"
    /\ popscle_pileup_var_most_complete_filename.run = LastRun
    /\ \E s \in Glob(var_parts) : Height(s) >= 1 /\ Height(s) < Height(LastRun)

\* Two partial files have the most rows and the first of them was copied.
C4_WitnessTie ==
    /\ returned["var"] = "True"
    /\ \A s \in RunNumbers : var_parts[s].st = "ok" /\ Height(s) = MaxRows
    /\ popscle_pileup_var_most_complete_filename.run # LastRun

\* A step of the scan that reads a well-formed partial VAR file with more
\* rows than the candidate.
C5_ReadsLarger ==
    /\ pc = "var_loop"
    /\ i < Len(Sorted(Glob(var_parts)))
    /\ i' # i \/ pc' # pc
    /\ var_parts[Sorted(Glob(var_parts))[i + 1]].st = "ok"
    /\ ~popscle_pileup_var_most_complete_df.is_none
    /\ Height(Sorted(Glob(var_parts))[i + 1])
           > Len(popscle_pileup_var_most_complete_df.rows)

C5_Step ==
    C5_ReadsLarger =>
        LET r == Sorted(Glob(var_parts))[i + 1]
            most == popscle_pileup_var_most_complete_df.rows
            h == Len(most)
        IN  /\ last_check' \in {"pass", "fail", "error"}
            /\ (h >= 1 /\ ReadVar(var_parts, r)[h] # most[h])
                  => /\ pc' = "crash"
                     /\ "var" \notin opened'
                     /\ returned'["var"] = "-"
            /\ (h >= 1 /\ ReadVar(var_parts, r)[h] = most[h])
                  => /\ pc' = "var_loop"
                     /\ popscle_pileup_var_most_complete_df' =
                            DataFrame(ReadVar(var_parts, r))
                     /\ popscle_pileup_var_most_complete_filename' = Filename(r)

\* C5: when the scan reads a partial VAR file with more rows than the
\* candidate, the assert is evaluated whatever the candidate's number of rows
\* h; for h >= 1, if the two rows at position h - 1 differ the process ends
\* with an exception and no full VAR file, and if they are equal the file
\* read becomes the candidate.
C5_LastRowAssert == [][C5_Step]_vars

\* The assert failed on two differing rows.
C5_Witness == pc = "crash" /\ last_check = "fail" /\ "var" \notin opened

\* The assert was evaluated against a candidate that has no row.
C5_WitnessEmptyCandidate ==
    /\ pc = "crash"
    /\ last_check = "error"
    /\ Len(popscle_pileup_var_most_complete_df.rows) = 0

\* C6: when the UMI merge returns True, the full UMI file has one line per
\* line of the partial files; the line at 0-based position k is str(k)
\* followed by the fields after the first of the k-th line of the partial
\* files, taken in sorted file order and then in line order.
C6_UmiRenumbered ==
    returned["umi"] = "True" =>
        LET out == full["umi"]
        IN  /\ Len(out) = Cardinality(AllRows(umi_parts))
            /\ \A r \in Glob(umi_parts) :
                 \A p \in 1 .. Len(umi_parts[r].rows) :
                    LET k == Cardinality(RowsBefore(umi_parts, r)) + p
                    IN  out[k] = <<ToString(k - 1)>>
                                     \o Tail(ReadUmi(umi_parts, r)[p])

\* The counter ran on across the boundary between two partial files.
C6_Witness ==
    /\ returned["umi"] = "True"
    /\ Len(full["umi"]) = 2 * MaxRows
    /\ \A r \in RunNumbers : Len(umi_parts[r].rows) = MaxRows

\* The partial files of a kind.
Parts(k) ==
    IF k = "cel" THEN cel_parts
    ELSE IF k = "plp" THEN plp_parts
    ELSE IF k = "umi" THEN umi_parts
    ELSE var_parts

\* C7: a procedure that finds no partial file of its kind does not end the
\* process with an exception: it returns, leaving an empty full file or
\* none, and the process goes on.
C7_MissingShardsNoFailure ==
    \A k \in Kinds :
        (Glob(Parts(k)) = {} /\ started # <<>> /\ started[Len(started)] = k)
            => /\ pc # "crash"
               /\ k \in opened => full[k] = <<>>

\* C8: when the process has ended, every full file it created is the
\* complete output of a procedure that returned normally.
C8_AllOrNothing ==
    pc \in Terminal =>
        \A k \in opened : returned[k] \in {"df", "True"}

\* The order in which main calls the procedures.
Order == <<"cel", "plp", "umi", "var">>

\* C9: the procedures start in the order CEL, PLP, UMI, VAR, each after the
\* one before it returned; the PLP merge is given the table the CEL merge
\* returned; and when the CEL merge returns None the process is at
\* sys.exit(1) with no other procedure started and no other full file
\* created.
C9_DriverOrder ==
    /\ Len(started) <= Len(Order)
    /\ \A n \in 1 .. Len(started) : started[n] = Order[n]
    /\ \A n \in 2 .. Len(started) : returned[started[n - 1]] # "-"
    /\ Len(started) >= 2
          => /\ returned["cel"] = "df"
             /\ ~plp_arg.is_none
             /\ plp_arg = popscle_pileup_cel_df
    /\ returned["cel"] = "None"
          => /\ pc = "exit1"
             /\ started = <<"cel">>
             /\ opened = {}

\* The CEL merge returned None: its full file appeared after main's tests.
C9_Witness == returned["cel"] = "None" /\ pc = "exit1"

\* All four procedures ran in order.
C9_WitnessAllFour == started = Order /\ pc = "done" /\ opened = Kinds

\* The PARTITION value of a run's PLP file is that of the run's CEL file, and
\* every row of the full PLP file carries the id of a droplet of its own run.
Aligned ==
    /\ \A a \in partition_of["plp"] :
          \A b \in partition_of["cel"] : a[1] = b[1] => a[2] = b[2]
    /\ \A k \in 1 .. Len(full["plp"]) :
          \A d \in 1 .. Len(plp_arg.rows) :
              plp_arg.rows[d].DROPLET_ID = full["plp"][k].DROPLET_ID
                  => plp_arg.rows[d].BARCODE[1] = full["plp"][k].SNP_ID[1]

\* C10 as stated: for every set of partial files, Aligned.
C10_AlignedAlways == Aligned

\* C10: when the same runs have a partial CEL file and a partial PLP file,
\* the PARTITION value the PLP merge gives a run's file is the one the CEL
\* merge gave the run's CEL file, and no observation is joined to a droplet
\* of another run.
C10_AlignedWhenSameRuns == Glob(cel_parts) = Glob(plp_parts) => Aligned

\* Both merges tagged the files of the same two runs and a row was joined.
C10_Witness ==
    /\ Glob(cel_parts) = RunNumbers
    /\ Glob(plp_parts) = RunNumbers
    /\ Cardinality(partition_of["plp"]) = Cardinality(RunNumbers)
    /\ partition_of["plp"] = partition_of["cel"]
    /\ \E k \in 1 .. Len(full["plp"]) : full["plp"][k].SNP_ID[1] = LastRun

====
